---- MODULE Spec2Model ----
(***************************************************************************)
(* TrustClaw: opportunity scoring, dedup caches, classifier degradation,   *)
(* pump / whale filters and the polling loops of the orchestrator.         *)
(*                                                                         *)
(* A JSON value read from a dict is carried as a record                    *)
(*   [kind |-> "absent" | "none" | "num", v |-> Int]                       *)
(* so that dict.get(key, default) and the "x or 0" coercion are computed   *)
(* as the code computes them.                                              *)
(***************************************************************************)
EXTENDS Integers, Sequences, FiniteSets, TLC

VARIABLES
    token_data,      \* score_opportunity: the snapshot passed in
    score,           \* score_opportunity: the returned score (NoScore before the call)
    SEEN_PAIRS,      \* DexScanner.SEEN_PAIRS
    all_tokens,      \* get_new_pairs: the tokens fetched by the last call
    new_pairs,       \* get_new_pairs: the list returned by the last call
    dex_calls,       \* number of get_new_pairs calls made so far
    response,        \* analyze_token: what the classification service answers
    analysis,        \* analyze_token: the outcome of the last call
    signal_history,  \* Brain.signal_history
    min_pump_pct,    \* scan_for_pumps: the threshold argument (Absent: not passed)
    trending,        \* scan_for_pumps: what get_trending_solana returned
    pumps,           \* scan_for_pumps: the returned list (NoPumps before the call)
    last_signatures, \* WhaleScanner.last_signatures: wallet -> retained signatures
    whale_wallet,    \* detect_large_swaps: the wallet of the last call
    wallet_txns,     \* detect_large_swaps: the transactions the last call fetched
    large_swaps,     \* detect_large_swaps: the list the last call returned
    whale_calls,     \* number of detect_large_swaps calls made so far
    config,          \* Config: which credentials are set
    run_pc,          \* TrustClaw.run: where it stands
    running,         \* TrustClaw.running
    pc,              \* where each polling loop stands
    unslept,         \* per loop: an iteration has worked since the loop last slept
    any_fetch,       \* some loop has started a fetch
    alert_calls,     \* number of alerts.* calls made, the startup message included
    analyze_calls,   \* number of analyze_token calls completed so far
    brief_data,      \* generate_market_brief: the data dict passed in
    brief_response,  \* generate_market_brief: what the classification service answers
    brief,           \* generate_market_brief: the outcome of the call
    brief_calls,     \* generate_market_brief: chat.completions.create invocations
    scored,          \* the addresses scan_new_tokens has passed to score_opportunity
    pair_emits,      \* per address: how often get_new_pairs has returned it, counted
                     \* where its calls run next to the sentiment scans
    seen_posts,      \* SentimentScanner.seen_posts
    reddit_pc,       \* per scan_reddit coroutine: idle, or awaiting its GET
    scan_all_calls,  \* number of scan_all calls started so far
    post_emits,      \* per post id: how often scan_reddit has appended it to posts
    whale_alerted,   \* the (wallet, signature) pairs passed to alert_whale_move
    whale_caller     \* which loop made the last detect_large_swaps call

scoreVars == <<token_data, score>>

dexVars == <<SEEN_PAIRS, all_tokens, new_pairs, dex_calls, pair_emits>>

brainVars == <<response, analysis, signal_history, analyze_calls>>

briefVars == <<brief_data, brief_response, brief, brief_calls>>

scanVars == <<scored>>

sentimentVars == <<seen_posts, reddit_pc, scan_all_calls, post_emits>>

alertVars == <<whale_alerted, whale_caller>>

\* the parts added to the scanners and the classifier
restVars == <<briefVars, scanVars, sentimentVars>>

pumpVars == <<min_pump_pct, trending, pumps>>

whaleVars == <<last_signatures, whale_wallet, wallet_txns, large_swaps, whale_calls>>

vars == <<token_data, score, SEEN_PAIRS, all_tokens, new_pairs, dex_calls,
          response, analysis, signal_history, min_pump_pct, trending, pumps,
          last_signatures, whale_wallet, wallet_txns, large_swaps, whale_calls,
          config, run_pc, running, pc, unslept, any_fetch, alert_calls,
          analyze_calls, brief_data, brief_response, brief, brief_calls, scored,
          pair_emits, seen_posts, reddit_pc, scan_all_calls, post_emits,
          whale_alerted, whale_caller>>

loopVars == <<config, run_pc, running, pc, unslept, any_fetch, alert_calls>>

\* everything but the orchestrator's own state
partVars == <<scoreVars, dexVars, brainVars, pumpVars, whaleVars, alertVars, restVars>>

----------------------------------------------------------------------------
(* Values read from dicts *)

Absent == [kind |-> "absent", v |-> 0]

None == [kind |-> "none", v |-> 0]

Num(n) == [kind |-> "num", v |-> n]

\* dict.get(key, default) for a numeric default: the default only when the key is absent
Get(f, default) == IF f.kind = "absent" THEN Num(default) ELSE f

\* the "x or 0" coercion: None and 0 are falsy, every other number is kept
OrZero(f) == IF f.kind = "none" THEN 0 ELSE f.v

Min(a, b) == IF a < b THEN a ELSE b

\* seq[:n]
FirstN(seq, n) == SubSeq(seq, 1, Min(Len(seq), n))

----------------------------------------------------------------------------
(* The state after construction (TrustClaw.__init__), part by part *)

NoScore == -1

\* no score_opportunity call made yet
ScoreIdle ==
    /\ token_data = [liquidity_usd |-> Absent, volume_24h |-> Absent,
                     h1_change |-> Absent, market_cap |-> Absent]
    /\ score = NoScore

Addresses == {"A", "B"}

\* DexScanner: the class-level set is empty, nothing fetched
DexIdle ==
    /\ SEEN_PAIRS = {}
    /\ all_tokens = <<>>
    /\ new_pairs = <<>>
    /\ dex_calls = 0
    /\ pair_emits = [a \in Addresses |-> 0]

NoResponse == [kind |-> "pending", content |-> <<>>]

NoAnalysis ==
    [state |-> "idle", exc |-> "", signal |-> "", confidence |-> 0,
     reasoning |-> "", token_address |-> ""]

\* Brain: signal_history = [], no analyze_token call made yet
BrainIdle ==
    /\ response = NoResponse
    /\ analysis = NoAnalysis
    /\ signal_history = <<>>
    /\ analyze_calls = 0

\* the data dict of a brief with nothing to report
EmptyData ==
    [new_tokens_count |-> 0, trending |-> 0, pumps |-> 0, whale_activity |-> 0,
     posts |-> 0]

NoBrief == [state |-> "idle", text |-> <<>>]

\* no generate_market_brief call made yet
BriefIdle ==
    /\ brief_data = EmptyData
    /\ brief_response = NoResponse
    /\ brief = NoBrief
    /\ brief_calls = 0

\* scan_new_tokens has scored nothing yet
ScanIdle == scored = {}

PostIds == {"p1", "p2"}

\* the loops that call sentiment.scan_all()
ScanAllCallers == {"scan_sentiment", "generate_hourly_brief"}

\* the three scan_reddit calls gathered by scan_all
Subreddits == {"solana", "CryptoMoonShots", "defi"}

Coroutines == ScanAllCallers \X Subreddits

\* SentimentScanner: seen_posts = set(), no scan_all call made yet
SentimentIdle ==
    /\ seen_posts = {}
    /\ reddit_pc = [c \in Coroutines |-> "idle"]
    /\ scan_all_calls = 0
    /\ post_emits = [i \in PostIds |-> 0]

RestIdle ==
    /\ BriefIdle
    /\ ScanIdle
    /\ SentimentIdle

\* the marker of "scan_for_pumps has not returned yet"
NoPumps == <<[h1_change |-> 0, h6_change |-> 0, returned |-> FALSE]>>

\* no scan_for_pumps call made yet
PumpIdle ==
    /\ min_pump_pct = Absent
    /\ trending = <<>>
    /\ pumps = NoPumps

Wallets == {"W1", "W2"}

\* WhaleScanner: last_signatures = {}, no detect_large_swaps call made yet
\* (a wallet without an entry reads as the empty set, whale_scanner.py:54)
WhaleIdle ==
    /\ last_signatures = [w \in Wallets |-> {}]
    /\ whale_wallet = "W1"
    /\ wallet_txns = <<>>
    /\ large_swaps = <<>>
    /\ whale_calls = 0
    /\ whale_alerted = {}
    /\ whale_caller = "scan_whales"

Loops ==
    {"scan_new_tokens", "scan_pumps", "scan_whales", "scan_sentiment",
     "generate_hourly_brief"}

\* every credential set, as in a complete .env
AllKeys == [groq |-> TRUE, telegram |-> TRUE, helius |-> TRUE]

\* TrustClaw(): running = True, run() not called yet, no task created
LoopsIdle ==
    /\ run_pc = "start"
    /\ running = TRUE
    /\ pc = [l \in Loops |-> "not_created"]
    /\ unslept = [l \in Loops |-> FALSE]
    /\ any_fetch = FALSE
    /\ alert_calls = 0

\* the orchestrator as the parts see it when they are exercised on their own
OrchestratorIdle ==
    /\ config = AllKeys
    /\ LoopsIdle

----------------------------------------------------------------------------
(* Brain.score_opportunity *)

\* how far around each tier threshold the checked inputs reach
Spread == 1

Around(t) == {t + d : d \in (0 - Spread)..Spread}

NumVals(S) == {Num(n) : n \in S}

LiquidityVals ==
    {Absent, None} \cup NumVals({-1, 0} \cup Around(5000) \cup Around(10000)
                                \cup Around(50000) \cup Around(100000))

VolumeVals ==
    {Absent, None} \cup NumVals({-1, 0} \cup Around(10000) \cup Around(50000)
                                \cup Around(100000) \cup Around(500000))

H1Vals ==
    {Absent, None} \cup NumVals({-50, 0} \cup Around(5) \cup Around(10)
                                \cup Around(100) \cup Around(200))

MarketCapVals ==
    {Absent, None} \cup NumVals({-1, 0} \cup Around(10000) \cup Around(500000)
                                \cup Around(5000000) \cup Around(50000000))

Snapshots ==
    [liquidity_usd : LiquidityVals, volume_24h : VolumeVals,
     h1_change : H1Vals, market_cap : MarketCapVals]

LiquidityScore(liquidity) ==
    IF liquidity > 100000 THEN 25
    ELSE IF liquidity > 50000 THEN 20
    ELSE IF liquidity > 10000 THEN 15
    ELSE IF liquidity > 5000 THEN 10
    ELSE 0

\* a variant whose tiers include their lower edge
VolumeScore_Inclusive(volume) ==
    IF volume >= 500000 THEN 25
    ELSE IF volume >= 100000 THEN 20
    ELSE IF volume >= 50000 THEN 15
    ELSE IF volume >= 10000 THEN 10
    ELSE 0

VolumeScore(volume) ==
    IF volume > 500000 THEN 25
    ELSE IF volume > 100000 THEN 20
    ELSE IF volume > 50000 THEN 15
    ELSE IF volume > 10000 THEN 10
    ELSE 0

\* a variant that penalises a falling price instead of ignoring it
MomentumScore_DumpPenalty(h1_change) ==
    IF 10 <= h1_change /\ h1_change <= 100 THEN 25
    ELSE IF 5 <= h1_change /\ h1_change <= 200 THEN 15
    ELSE IF h1_change > 200 THEN 5
    ELSE IF h1_change < 0 THEN -5
    ELSE 0

MomentumScore(h1_change) ==
    IF 10 <= h1_change /\ h1_change <= 100 THEN 25
    ELSE IF 5 <= h1_change /\ h1_change <= 200 THEN 15
    ELSE IF h1_change > 200 THEN 5
    ELSE 0

\* a variant whose first band forgets its lower edge
MarketCapScore_NoFloor(market_cap) ==
    IF market_cap <= 500000 THEN 25
    ELSE IF 500000 < market_cap /\ market_cap <= 5000000 THEN 20
    ELSE IF 5000000 < market_cap /\ market_cap <= 50000000 THEN 15
    ELSE IF market_cap > 50000000 THEN 10
    ELSE 0

\* a variant whose first band excludes its lower edge
MarketCapScore_StrictFloor(market_cap) ==
    IF 10000 < market_cap /\ market_cap <= 500000 THEN 25
    ELSE IF 500000 < market_cap /\ market_cap <= 5000000 THEN 20
    ELSE IF 5000000 < market_cap /\ market_cap <= 50000000 THEN 15
    ELSE IF market_cap > 50000000 THEN 10
    ELSE 0

MarketCapScore(market_cap) ==
    IF 10000 <= market_cap /\ market_cap <= 500000 THEN 25
    ELSE IF 500000 < market_cap /\ market_cap <= 5000000 THEN 20
    ELSE IF 5000000 < market_cap /\ market_cap <= 50000000 THEN 15
    ELSE IF market_cap > 50000000 THEN 10
    ELSE 0

score_opportunity(td) ==
    LET liquidity == OrZero(Get(td.liquidity_usd, 0))
        volume == OrZero(Get(td.volume_24h, 0))
        h1_change == OrZero(Get(td.h1_change, 0))
        market_cap == OrZero(Get(td.market_cap, 0))
    IN  Min(LiquidityScore(liquidity) + VolumeScore(volume)
            + MomentumScore(h1_change) + MarketCapScore(market_cap), 100)

\* the call: the score of the snapshot at hand is computed and returned
ScoreOpportunity ==
    /\ score = NoScore
    /\ score' = score_opportunity(token_data)
    /\ UNCHANGED token_data
    /\ UNCHANGED <<dexVars, brainVars, pumpVars, whaleVars, loopVars, alertVars, restVars>>

InitScore ==
    /\ RestIdle
    /\ token_data \in Snapshots
    /\ score = NoScore
    /\ DexIdle
    /\ BrainIdle
    /\ PumpIdle
    /\ WhaleIdle
    /\ OrchestratorIdle

NextScore == ScoreOpportunity

SpecScore == InitScore /\ [][NextScore]_vars

\* the four inputs as the scorer reads them
InLiquidity == OrZero(Get(token_data.liquidity_usd, 0))

InVolume == OrZero(Get(token_data.volume_24h, 0))

InH1 == OrZero(Get(token_data.h1_change, 0))

InMarketCap == OrZero(Get(token_data.market_cap, 0))

Scored == score # NoScore

\* C1: the score returned for any snapshot, negative, zero, None and
\* missing fields included, lies in [0, 100].
C1_ScoreInRange == Scored => (score >= 0 /\ score <= 100)

C1_Witness ==
    /\ Scored
    /\ token_data.liquidity_usd = None
    /\ token_data.volume_24h = Absent
    /\ token_data.h1_change = Num(-50)
    /\ token_data.market_cap = Num(-1)
    /\ score = 0

\* C2 as stated: liquidity >= 100,000, volume >= 500,000, h1 in [10, 100]
\* and market cap in [10,000, 500,000] give a score of exactly 100.
C2_Original ==
    (/\ Scored
     /\ token_data.liquidity_usd.kind = "num" /\ InLiquidity >= 100000
     /\ token_data.volume_24h.kind = "num" /\ InVolume >= 500000
     /\ 10 <= InH1 /\ InH1 <= 100
     /\ 10000 <= InMarketCap /\ InMarketCap <= 500000)
    => score = 100

\* C2 amended: liquidity strictly above 100,000 and volume strictly above
\* 500,000, h1 in [10, 100] and market cap in [10,000, 500,000] (the last two
\* inclusive) give a score of exactly 100.
C2_TopScore ==
    (/\ Scored
     /\ InLiquidity > 100000
     /\ InVolume > 500000
     /\ 10 <= InH1 /\ InH1 <= 100
     /\ 10000 <= InMarketCap /\ InMarketCap <= 500000)
    => score = 100

C2_Witness ==
    /\ Scored
    /\ InLiquidity = 100001
    /\ InVolume = 500001
    /\ InH1 = 10
    /\ InMarketCap = 10000
    /\ score = 100

\* C3: liquidity < 5,000, volume < 10,000, h1 < 5 and market cap < 10,000
\* give a score of exactly 0.
C3_BottomScore ==
    (/\ Scored
     /\ InLiquidity < 5000
     /\ InVolume < 10000
     /\ InH1 < 5
     /\ InMarketCap < 10000)
    => score = 0

C3_Witness ==
    /\ Scored
    /\ InLiquidity = 4999
    /\ InVolume = 9999
    /\ InH1 = 4
    /\ InMarketCap = 9999
    /\ score = 0

\* C12: the score is the sum of four sub-scores, each in [0, 25], each the
\* first matching tier: liquidity >100,000: 25, >50,000: 20, >10,000: 15,
\* >5,000: 10, else 0; volume >500,000: 25, >100,000: 20, >50,000: 15,
\* >10,000: 10, else 0; h1 in [10, 100]: 25, else in [5, 200]: 15, else
\* >200: 5, else 0; market cap in [10,000, 500,000]: 25, (500,000,
\* 5,000,000]: 20, (5,000,000, 50,000,000]: 15, >50,000,000: 10, else 0.
C12_SumOfTiers ==
    Scored =>
        \E l, v, m, c \in {0, 5, 10, 15, 20, 25} :
            /\ score = l + v + m + c
            /\ l = 25 <=> InLiquidity > 100000
            /\ l = 20 <=> (InLiquidity > 50000 /\ InLiquidity <= 100000)
            /\ l = 15 <=> (InLiquidity > 10000 /\ InLiquidity <= 50000)
            /\ l = 10 <=> (InLiquidity > 5000 /\ InLiquidity <= 10000)
            /\ l = 0 <=> InLiquidity <= 5000
            /\ v = 25 <=> InVolume > 500000
            /\ v = 20 <=> (InVolume > 100000 /\ InVolume <= 500000)
            /\ v = 15 <=> (InVolume > 50000 /\ InVolume <= 100000)
            /\ v = 10 <=> (InVolume > 10000 /\ InVolume <= 50000)
            /\ v = 0 <=> InVolume <= 10000
            /\ m = 25 <=> (10 <= InH1 /\ InH1 <= 100)
            /\ m = 15 <=> ((5 <= InH1 /\ InH1 < 10) \/ (100 < InH1 /\ InH1 <= 200))
            /\ m = 5 <=> InH1 > 200
            /\ m = 0 <=> InH1 < 5
            /\ c = 25 <=> (10000 <= InMarketCap /\ InMarketCap <= 500000)
            /\ c = 20 <=> (500000 < InMarketCap /\ InMarketCap <= 5000000)
            /\ c = 15 <=> (5000000 < InMarketCap /\ InMarketCap <= 50000000)
            /\ c = 10 <=> InMarketCap > 50000000
            /\ c = 0 <=> InMarketCap < 10000

\* one tier of each rank: 20 + 10 + 5 + 10
C12_Witness ==
    /\ Scored
    /\ token_data.liquidity_usd = Num(50001)
    /\ token_data.volume_24h = Num(10001)
    /\ token_data.h1_change = Num(201)
    /\ token_data.market_cap = Num(50000001)
    /\ score = 45

----------------------------------------------------------------------------
(* DexScanner.get_new_pairs and its SEEN_PAIRS gate *)

\* number of get_new_pairs calls followed
MaxDexCalls == 2

\* longest list either endpoint returns
MaxListLen == 1

\* an element of a fetched list: a token profile (a dict, whose tokenAddress
\* is "" when absent or null) or a JSON value that is not a dict
Tokens ==
    [kind : {"dict"}, chainId : {"solana"}, tokenAddress : Addresses \cup {""}]
    \cup [kind : {"dict"}, chainId : {"ethereum"}, tokenAddress : {"A"}]
    \cup [kind : {"other"}, chainId : {""}, tokenAddress : {""}]

SeqsUpTo(S, n) == UNION {[1..k -> S] : k \in 0..n}

\* a response body: a JSON list of tokens, or some other JSON value
Bodies ==
    [is_list : {TRUE}, items : SeqsUpTo(Tokens, MaxListLen)]
    \cup [is_list : {FALSE}, items : {<<>>}]

\* the two GETs of one call: both succeed with a body, or one of them fails
DexResponses ==
    [ok : {TRUE}, data : Bodies, boosted : Bodies]
    \cup [ok : {FALSE}, data : {[is_list |-> FALSE, items |-> <<>>]},
          boosted : {[is_list |-> FALSE, items |-> <<>>]}]

AllTokens(resp) ==
    (IF resp.data.is_list THEN resp.data.items ELSE <<>>)
    \o (IF resp.boosted.is_list THEN resp.boosted.items ELSE <<>>)

\* a variant of the gate that forgets the membership test
PairsLoop_NoSeenCheck(toks, seen, results) ==
    LET F[i \in 0..Len(toks)] ==
            IF i = 0 THEN [seen |-> seen, results |-> results, raised |-> FALSE]
            ELSE LET acc == F[i - 1]
                     token == toks[i]
                     addr == token.tokenAddress
                 IN  IF acc.raised THEN acc
                     ELSE IF token.kind # "dict" THEN [acc EXCEPT !.raised = TRUE]
                     ELSE IF token.chainId # "solana" THEN acc
                     ELSE IF addr # ""
                          THEN [acc EXCEPT !.seen = acc.seen \cup {addr},
                                           !.results = Append(acc.results, token)]
                          ELSE acc
    IN  F[Len(toks)]

\* the for loop over all_tokens: the first element that is not a dict raises
\* (token.get on it) and ends the loop with what was marked so far
PairsLoop(toks, seen, results) ==
    LET F[i \in 0..Len(toks)] ==
            IF i = 0 THEN [seen |-> seen, results |-> results, raised |-> FALSE]
            ELSE LET acc == F[i - 1]
                     token == toks[i]
                     addr == token.tokenAddress
                 IN  IF acc.raised THEN acc
                     ELSE IF token.kind # "dict" THEN [acc EXCEPT !.raised = TRUE]
                     ELSE IF token.chainId # "solana" THEN acc
                     ELSE IF addr # "" /\ addr \notin acc.seen
                          THEN [acc EXCEPT !.seen = acc.seen \cup {addr},
                                           !.results = Append(acc.results, token)]
                          ELSE acc
    IN  F[Len(toks)]

\* get_new_pairs on the answers resp: any exception, of a request or inside
\* the loop, is caught and [] is returned
get_new_pairs(resp) ==
    LET toks == IF resp.ok THEN AllTokens(resp) ELSE <<>>
        out == PairsLoop(toks, SEEN_PAIRS, <<>>)
    IN  /\ all_tokens' = toks
        /\ SEEN_PAIRS' = out.seen
        /\ new_pairs' = IF out.raised THEN <<>> ELSE out.results
        /\ dex_calls' = dex_calls + 1

\* one call of get_new_pairs
GetNewPairs ==
    /\ dex_calls < MaxDexCalls
    /\ \E resp \in DexResponses : get_new_pairs(resp)
    /\ UNCHANGED pair_emits
    /\ UNCHANGED <<scoreVars, brainVars, pumpVars, whaleVars, loopVars, alertVars,
                   restVars>>

InitDex ==
    /\ RestIdle
    /\ ScoreIdle
    /\ DexIdle
    /\ BrainIdle
    /\ PumpIdle
    /\ WhaleIdle
    /\ OrchestratorIdle

NextDex == GetNewPairs

SpecDex == InitDex /\ [][NextDex]_vars

AddrsOf(toks) == {toks[i].tokenAddress : i \in 1..Len(toks)}

\* the addresses the gate looks up before the loop ends
CheckedAddrs(toks) ==
    {toks[i].tokenAddress : i \in
        {j \in 1..Len(toks) :
            /\ toks[j].kind = "dict" /\ toks[j].chainId = "solana"
            /\ toks[j].tokenAddress # ""
            /\ \A k \in 1..j : toks[k].kind = "dict"}}

NoRaise(toks) == \A k \in 1..Len(toks) : toks[k].kind = "dict"

\* C4: in every get_new_pairs call, (a) no address marked before the call is
\* returned and no address is returned twice, (b) SEEN_PAIRS never loses an
\* element, (c) an address looked up while unmarked is taken as unseen: it is
\* marked, and returned when the call completes, and (d) only the addresses
\* looked up change status, every other address keeps its own.
C4_SeenPairsGate ==
    [][dex_calls' # dex_calls =>
         /\ AddrsOf(new_pairs') \cap SEEN_PAIRS = {}
         /\ \A i, j \in 1..Len(new_pairs') :
                new_pairs'[i].tokenAddress = new_pairs'[j].tokenAddress => i = j
         /\ SEEN_PAIRS \subseteq SEEN_PAIRS'
         /\ CheckedAddrs(all_tokens') \ SEEN_PAIRS \subseteq SEEN_PAIRS'
         /\ NoRaise(all_tokens') =>
                CheckedAddrs(all_tokens') \ SEEN_PAIRS = AddrsOf(new_pairs')
         /\ SEEN_PAIRS' \ SEEN_PAIRS \subseteq CheckedAddrs(all_tokens')
    ]_vars

\* A was marked by an earlier call, is fetched again next to the unmarked B,
\* and only B is returned
C4_Witness ==
    /\ dex_calls >= 2
    /\ Len(all_tokens) = 2
    /\ all_tokens[1].tokenAddress = "A" /\ all_tokens[1].chainId = "solana"
    /\ AddrsOf(new_pairs) = {"B"}
    /\ SEEN_PAIRS = {"A", "B"}

----------------------------------------------------------------------------
(* TrustClaw.scan_new_tokens: one iteration of the loop body *)

\* "for token in new_tokens[:10]"
PROCESS_LIMIT == 10

\* what get_token_data and the reads of its result give for an address: a
\* dict that is scored, None (request failed, or a body that is no dict), or
\* a dict whose liquidity, volume or priceChange is null, on which .get raises
DetailOutcomes == {"ok", "none", "malformed"}

\* the for loop over the first 10 new tokens, up to the score_opportunity
\* call: an exception ends the loop (it is caught by the iteration's except)
ScanLoop(tokens, details, before) ==
    LET F[i \in 0..Len(tokens)] ==
            IF i = 0 THEN [scored |-> before, raised |-> FALSE]
            ELSE LET acc == F[i - 1]
                     address == tokens[i].tokenAddress
                 IN  IF acc.raised THEN acc
                     ELSE IF address = "" THEN acc
                     ELSE IF details[address] = "none" THEN acc
                     ELSE IF details[address] = "malformed"
                     THEN [acc EXCEPT !.raised = TRUE]
                     ELSE [acc EXCEPT !.scored = acc.scored \cup {address}]
    IN  F[Len(tokens)]

\* longest token-profiles list of an iteration
MaxProfiles == 3

\* the answers an iteration gets from the two endpoints: a list of Solana
\* token profiles and no boosted token, or a failed request
ProfileResponses ==
    {[ok |-> TRUE,
      data |-> [is_list |-> TRUE,
                items |-> [i \in 1..Len(addrs) |->
                             [kind |-> "dict", chainId |-> "solana",
                              tokenAddress |-> addrs[i]]]],
      boosted |-> [is_list |-> TRUE, items |-> <<>>]] :
        addrs \in SeqsUpTo(Addresses, MaxProfiles)}
    \cup [ok : {FALSE}, data : {[is_list |-> FALSE, items |-> <<>>]},
          boosted : {[is_list |-> FALSE, items |-> <<>>]}]

\* one iteration: get_new_pairs, then the loop over what it returned
ScanNewTokens ==
    /\ dex_calls < MaxDexCalls
    /\ \E resp \in ProfileResponses, details \in [Addresses -> DetailOutcomes] :
          /\ get_new_pairs(resp)
          /\ scored' = ScanLoop(FirstN(new_pairs', PROCESS_LIMIT), details, scored).scored
    /\ UNCHANGED pair_emits
    /\ UNCHANGED <<scoreVars, brainVars, pumpVars, whaleVars, loopVars, alertVars,
                   briefVars, sentimentVars>>

InitTokenScan ==
    /\ RestIdle
    /\ ScoreIdle
    /\ DexIdle
    /\ BrainIdle
    /\ PumpIdle
    /\ WhaleIdle
    /\ OrchestratorIdle

NextTokenScan == ScanNewTokens

SpecTokenScan == InitTokenScan /\ [][NextTokenScan]_vars

\* C14: every address in SEEN_PAIRS has been passed to score_opportunity by
\* the iteration that received it from get_new_pairs.
C14_SeenImpliesScored == SEEN_PAIRS \subseteq scored

----------------------------------------------------------------------------
(* Brain.analyze_token *)

\* longest completion text, in lexical pieces
MaxTextLen == 3

ObjSignals == {"BUY", "SKIP", "HOLD"}

ObjConfidences == {0, 7, 11}

Piece(t) == [t |-> t, signal |-> "", confidence |-> 0]

\* the pieces a completion text is made of: the two markdown fences, prose
\* that is not JSON, whitespace, and complete JSON values (a list, a scalar
\* such as a string, a number or null, and an object with its fields)
TextPieces ==
    {Piece("fence_json"), Piece("fence"), Piece("prose"), Piece("space"),
     Piece("list"), Piece("scalar")}
    \cup [t : {"object"}, signal : ObjSignals, confidence : ObjConfidences]

\* what chat.completions.create gives: an exception, a message whose content
\* is None, or a text
ServiceResponses ==
    {[kind |-> "error", content |-> <<>>], [kind |-> "no_content", content |-> <<>>]}
    \cup [kind : {"text"}, content : SeqsUpTo(TextPieces, MaxTextLen)]

\* str.strip(): leading and trailing whitespace removed
Strip(text) ==
    LET keep == {i \in 1..Len(text) : text[i].t # "space"}
    IN  IF keep = {} THEN <<>>
        ELSE SubSeq(text, CHOOSE i \in keep : \A j \in keep : i <= j,
                          CHOOSE i \in keep : \A j \in keep : j <= i)

Contains(text, seps) == \E i \in 1..Len(text) : text[i].t \in seps

\* text.split(sep)[k], for k at most the number of occurrences of sep
Segment(text, seps, k) ==
    LET P == {i \in 1..Len(text) : text[i].t \in seps}
        nth(n) == CHOOSE p \in P : Cardinality({q \in P : q < p}) = n - 1
        start == IF k = 0 THEN 0 ELSE nth(k)
        end == IF Cardinality(P) > k THEN nth(k + 1) ELSE Len(text) + 1
    IN  SubSeq(text, start + 1, end - 1)

\* the text handed to json.loads: what a markdown code block encloses
ExtractJson(content) ==
    LET result_text == Strip(content)
    IN  IF Contains(result_text, {"fence_json"})
        THEN Strip(Segment(Segment(result_text, {"fence_json"}, 1),
                           {"fence", "fence_json"}, 0))
        ELSE IF Contains(result_text, {"fence"})
        THEN Strip(Segment(Segment(result_text, {"fence"}, 1), {"fence"}, 0))
        ELSE result_text

\* json.loads: exactly one JSON value, whitespace around it allowed
json_loads(text) ==
    LET t == Strip(text)
    IN  IF Len(t) = 1 /\ t[1].t \in {"object", "list", "scalar"}
        THEN [ok |-> TRUE, value |-> t[1]]
        ELSE [ok |-> FALSE, value |-> Piece("prose")]

\* the try block: "" when it runs to its return, else the exception it raises
TryBody(resp) ==
    IF resp.kind = "error" THEN [exc |-> "APIError", value |-> Piece("prose")]
    ELSE IF resp.kind = "no_content"
    THEN [exc |-> "AttributeError", value |-> Piece("prose")]
    ELSE LET parsed == json_loads(ExtractJson(resp.content))
         IN  IF ~parsed.ok THEN [exc |-> "JSONDecodeError", value |-> Piece("prose")]
             ELSE IF parsed.value.t # "object"
             THEN [exc |-> "TypeError", value |-> parsed.value]
             ELSE [exc |-> "", value |-> parsed.value]

\* the classes "except Exception" catches
ExceptionClasses == {"JSONDecodeError", "TypeError", "AttributeError", "APIError"}

\* a variant with the first except clause only
Caught_ParseErrorOnly(exc) == exc = "JSONDecodeError"

\* the two except clauses
Caught(exc) == exc = "JSONDecodeError" \/ exc \in ExceptionClasses

\* a variant that forgets the confidence of the parsed object
analyze_token_NoConfidence(resp, address) ==
    LET body == TryBody(resp)
    IN  IF body.exc = ""
        THEN [state |-> "returned", exc |-> "", signal |-> body.value.signal,
              confidence |-> 0, reasoning |-> "model", token_address |-> address]
        ELSE IF Caught(body.exc)
        THEN [state |-> "returned", exc |-> "", signal |-> "SKIP", confidence |-> 0,
              reasoning |-> IF body.exc = "JSONDecodeError"
                            THEN "Analysis failed" ELSE "Analysis error",
              token_address |-> ""]
        ELSE [state |-> "raised", exc |-> body.exc, signal |-> "", confidence |-> 0,
              reasoning |-> "", token_address |-> ""]

analyze_token(resp, address) ==
    LET body == TryBody(resp)
    IN  IF body.exc = ""
        THEN [state |-> "returned", exc |-> "", signal |-> body.value.signal,
              confidence |-> body.value.confidence, reasoning |-> "model",
              token_address |-> address]
        ELSE IF Caught(body.exc)
        THEN [state |-> "returned", exc |-> "", signal |-> "SKIP", confidence |-> 0,
              reasoning |-> IF body.exc = "JSONDecodeError"
                            THEN "Analysis failed" ELSE "Analysis error",
              token_address |-> ""]
        ELSE [state |-> "raised", exc |-> body.exc, signal |-> "", confidence |-> 0,
              reasoning |-> "", token_address |-> ""]

\* "self.signal_history.append(analysis)" stands in the try block after
\* json.loads: only a parsed analysis is appended
HistoryAfter(history, out) ==
    IF out.state = "returned" /\ out.reasoning = "model"
    THEN Append(history, out)
    ELSE history

\* one call of analyze_token on the answer at hand
AnalyzeToken ==
    /\ analysis = NoAnalysis
    /\ response # NoResponse
    /\ \E address \in Addresses :
          LET out == analyze_token(response, address)
          IN  /\ analysis' = out
              /\ signal_history' = HistoryAfter(signal_history, out)
    /\ analyze_calls' = analyze_calls + 1
    /\ UNCHANGED <<response, scoreVars, dexVars, pumpVars, whaleVars, loopVars, alertVars,
                   restVars>>

InitClassify ==
    /\ RestIdle
    /\ ScoreIdle
    /\ DexIdle
    /\ response \in ServiceResponses
    /\ analysis = NoAnalysis
    /\ signal_history = <<>>
    /\ analyze_calls = 0
    /\ PumpIdle
    /\ WhaleIdle
    /\ OrchestratorIdle

NextClassify == AnalyzeToken

SpecClassify == InitClassify /\ [][NextClassify]_vars

Analyzed == analysis.state # "idle"

ServiceFailed == response.kind \in {"error", "no_content"}

\* the answer is a text that does not hold exactly one JSON object
NotAnObject ==
    /\ response.kind = "text"
    /\ LET parsed == json_loads(ExtractJson(response.content))
       IN  ~parsed.ok \/ parsed.value.t # "object"

\* C5: analyze_token always returns, and whenever the service call failed or
\* its text is not one JSON object (prose, or a JSON list or scalar) what it
\* returns is SKIP with confidence 0.
C5_DegradesToSkip ==
    Analyzed =>
        /\ analysis.state = "returned"
        /\ (ServiceFailed \/ NotAnObject) =>
               (analysis.signal = "SKIP" /\ analysis.confidence = 0)

\* a fenced JSON list: valid JSON, not an object
C5_Witness ==
    /\ Analyzed
    /\ response.kind = "text"
    /\ response.content = <<Piece("fence_json"), Piece("list"), Piece("fence")>>
    /\ analysis.state = "returned"
    /\ analysis.signal = "SKIP" /\ analysis.confidence = 0
    /\ signal_history = <<>>

SignalKinds == {"BUY", "WATCH", "SKIP", "DANGER"}

\* the classification failed: no answer, or a text that is not one JSON object
ClassificationFailed == ServiceFailed \/ NotAnObject

\* C15 as stated: every returned Signal has a kind among BUY, WATCH, SKIP and
\* DANGER and a confidence in 1..10, or 0 exactly when the classification
\* failed.
C15_Original ==
    (Analyzed /\ analysis.state = "returned") =>
        /\ analysis.signal \in SignalKinds
        /\ analysis.confidence \in 0..10
        /\ analysis.confidence = 0 <=> ClassificationFailed

\* C15 amended: a returned Signal is SKIP with confidence 0 when the
\* classification failed, and otherwise carries the signal and the confidence
\* of the JSON object the service sent, unchanged; so its kind is among BUY,
\* WATCH, SKIP and DANGER and its confidence in 1..10 whenever the object's
\* are.
C15_SignalAsAnswered ==
    (Analyzed /\ analysis.state = "returned") =>
        IF ClassificationFailed
        THEN analysis.signal = "SKIP" /\ analysis.confidence = 0
        ELSE LET object == json_loads(ExtractJson(response.content)).value
             IN  /\ analysis.signal = object.signal
                 /\ analysis.confidence = object.confidence
                 /\ (object.signal \in SignalKinds /\ object.confidence \in 1..10) =>
                        (analysis.signal \in SignalKinds /\ analysis.confidence \in 1..10)

\* the service answers with an object of kind HOLD and confidence 11, and
\* that is what the caller gets
C15_Witness ==
    /\ Analyzed
    /\ response.kind = "text"
    /\ response.content = <<[t |-> "object", signal |-> "HOLD", confidence |-> 11]>>
    /\ analysis.state = "returned"
    /\ analysis.signal = "HOLD"
    /\ analysis.confidence = 11

\* number of successive analyze_token calls followed
MaxAnalyzeCalls == 3

\* the answers of successive calls: a service error, a content of None, and
\* one-piece texts (prose, a JSON list, two JSON objects)
CallResponses ==
    {r \in ServiceResponses :
        \/ r.kind # "text"
        \/ /\ Len(r.content) = 1
           /\ r.content[1] \in {Piece("prose"), Piece("list"),
                                 [t |-> "object", signal |-> "BUY", confidence |-> 7],
                                 [t |-> "object", signal |-> "HOLD", confidence |-> 11]}}

\* one more call of analyze_token, on a fresh answer of the service
AnalyzeCall ==
    /\ analyze_calls < MaxAnalyzeCalls
    /\ \E resp \in CallResponses, address \in Addresses :
          LET out == analyze_token(resp, address)
          IN  /\ response' = resp
              /\ analysis' = out
              /\ signal_history' = HistoryAfter(signal_history, out)
    /\ analyze_calls' = analyze_calls + 1
    /\ UNCHANGED <<scoreVars, dexVars, pumpVars, whaleVars, loopVars, alertVars,
                   restVars>>

InitHistory ==
    /\ RestIdle
    /\ ScoreIdle
    /\ DexIdle
    /\ BrainIdle
    /\ PumpIdle
    /\ WhaleIdle
    /\ OrchestratorIdle

NextHistory == AnalyzeCall

SpecHistory == InitHistory /\ [][NextHistory]_vars

IsPrefix(a, b) == Len(a) <= Len(b) /\ SubSeq(b, 1, Len(a)) = a

\* C16: the history holds one entry per completed analyze_token call, the
\* last one being the Signal the last call returned, and every step leaves
\* the earlier history as a prefix of the later one.
C16_HistoryCountsCalls ==
    /\ [](/\ Len(signal_history) = analyze_calls
          /\ analyze_calls > 0 => signal_history[Len(signal_history)] = analysis)
    /\ [][IsPrefix(signal_history, signal_history')]_vars

----------------------------------------------------------------------------
(* Brain.generate_market_brief *)

\* the data dicts generate_hourly_brief builds: how many entries each list
\* of the prompt has; every list empty, or one entry in each
BriefInputs ==
    {EmptyData,
     [new_tokens_count |-> 1, trending |-> 1, pumps |-> 1, whale_activity |-> 1,
      posts |-> 1]}

\* the text of the except clause: the warning and str(e)
FailureText == <<Piece("prose")>>

\* the prompt is built from data with defaults for every key, and the try
\* block returns the stripped completion or, on any exception (of the
\* service, or .strip() on a content of None), the failure text
generate_market_brief(data, resp) ==
    IF resp.kind = "error" THEN [state |-> "returned", text |-> FailureText]
    ELSE IF resp.kind = "no_content" THEN [state |-> "returned", text |-> FailureText]
    ELSE [state |-> "returned", text |-> Strip(resp.content)]

\* one call of generate_market_brief: the service is invoked once
GenerateMarketBrief ==
    /\ brief = NoBrief
    /\ brief_response # NoResponse
    /\ brief' = generate_market_brief(brief_data, brief_response)
    /\ brief_calls' = brief_calls + 1
    /\ UNCHANGED <<brief_data, brief_response>>
    /\ UNCHANGED <<scoreVars, dexVars, brainVars, pumpVars, whaleVars, loopVars,
                   alertVars, scanVars, sentimentVars>>

InitBrief ==
    /\ ScoreIdle
    /\ DexIdle
    /\ BrainIdle
    /\ PumpIdle
    /\ WhaleIdle
    /\ OrchestratorIdle
    /\ ScanIdle
    /\ SentimentIdle
    /\ brief_data \in BriefInputs
    /\ brief_response \in ServiceResponses
    /\ brief = NoBrief
    /\ brief_calls = 0

NextBrief == GenerateMarketBrief

SpecBrief == InitBrief /\ [][NextBrief]_vars

BriefMade == brief.state # "idle"

\* C11: a brief asked for with no trending token, pump, whale move or post
\* invokes the classification service once, never raises and returns a
\* non-empty text, also when the service fails.
C11_EmptyBrief ==
    (BriefMade /\ brief_data = EmptyData) =>
        /\ brief_calls = 1
        /\ brief.state = "returned"
        /\ brief.text # <<>>

----------------------------------------------------------------------------
(* DexScanner.scan_for_pumps *)

\* longest trending list
MaxTrending == 4

PUMP_THRESHOLD_PCT == 50

\* the threshold as the caller passes it: not at all, or a percentage
\* (generate_hourly_brief passes 20)
ThresholdArgs == {Absent} \cup NumVals({0, 20, 50, 60})

\* a trending token, by the two price changes the filter reads
TrendingTokens ==
    [h1 : {None} \cup NumVals({5, 60, -80, 200}), h6 : {Absent, Num(-75)}]

\* "min_pump_pct or Config.PUMP_THRESHOLD_PCT"
EffectiveThreshold(arg) ==
    IF arg.kind = "num" /\ arg.v # 0 THEN arg.v ELSE PUMP_THRESHOLD_PCT

Abs(n) == IF n < 0 THEN 0 - n ELSE n

\* abs(h1_change) >= min_pump_pct or abs(h6_change) >= min_pump_pct * 1.5
IsPump(h1_change, h6_change, threshold) ==
    \/ Abs(h1_change) >= threshold
    \/ 2 * Abs(h6_change) >= 3 * threshold

\* the entry appended for a token
PumpEntry(token) ==
    [h1_change |-> OrZero(Get(token.h1, 0)), h6_change |-> OrZero(Get(token.h6, 0)),
     returned |-> TRUE]

\* the for loop: the entries of the tokens that pass the filter, in list order
PumpFilter(toks, threshold) ==
    LET F[i \in 0..Len(toks)] ==
            IF i = 0 THEN <<>>
            ELSE LET e == PumpEntry(toks[i])
                 IN  IF IsPump(e.h1_change, e.h6_change, threshold)
                     THEN Append(F[i - 1], e) ELSE F[i - 1]
    IN  F[Len(toks)]

\* sorted(pumps, key=abs(h1_change), reverse=True): stable, so entries with
\* equal keys keep their order
SortedDesc(entries) ==
    LET n == Len(entries)
        \* the rank of entry i: how many entries come before it in the result
        rank(i) == Cardinality({j \in 1..n :
                        \/ Abs(entries[j].h1_change) > Abs(entries[i].h1_change)
                        \/ /\ Abs(entries[j].h1_change) = Abs(entries[i].h1_change)
                           /\ j < i})
    IN  [k \in 1..n |-> entries[CHOOSE i \in 1..n : rank(i) = k - 1]]

scan_for_pumps(arg, toks) ==
    SortedDesc(PumpFilter(toks, EffectiveThreshold(arg)))

\* one call of scan_for_pumps: a failed trending fetch comes back as []
ScanForPumps ==
    /\ pumps = NoPumps
    /\ pumps' = scan_for_pumps(min_pump_pct, trending)
    /\ UNCHANGED <<min_pump_pct, trending, scoreVars, dexVars, brainVars, whaleVars,
                   loopVars, alertVars, restVars>>

InitPumps ==
    /\ RestIdle
    /\ ScoreIdle
    /\ DexIdle
    /\ BrainIdle
    /\ min_pump_pct \in ThresholdArgs
    /\ trending \in SeqsUpTo(TrendingTokens, MaxTrending)
    /\ pumps = NoPumps
    /\ WhaleIdle
    /\ OrchestratorIdle

NextPumps == ScanForPumps

SpecPumps == InitPumps /\ [][NextPumps]_vars

PumpsReturned == pumps # NoPumps

\* the threshold the caller asked for: the one passed, the configured one
\* only when none was passed
RequestedThreshold ==
    IF min_pump_pct.kind = "num" THEN min_pump_pct.v ELSE PUMP_THRESHOLD_PCT

Count(seq, e) == Cardinality({i \in 1..Len(seq) : seq[i] = e})

\* C6: scan_for_pumps returns exactly the tokens with |h1| >= threshold or
\* |h6| >= 1.5 x threshold, for the threshold the caller passed (the
\* configured one only when none was passed), by descending |h1|.
C6_PumpFilter ==
    PumpsReturned =>
        LET wanted == PumpFilter(trending, RequestedThreshold)
        IN  /\ Len(pumps) = Len(wanted)
            /\ \A i \in 1..Len(wanted) : Count(pumps, wanted[i]) = Count(wanted, wanted[i])
            /\ \A i \in 1..(Len(pumps) - 1) :
                   Abs(pumps[i].h1_change) >= Abs(pumps[i + 1].h1_change)

----------------------------------------------------------------------------
(* WhaleScanner.detect_large_swaps *)
(* Lamport amounts are carried in units of 10^6 lamports, so that the      *)
(* products of the USD estimate stay within TLC's integers: 1e9 lamports   *)
(* (1 SOL) is 1000 units.                                                  *)

WHALE_MIN_USD == 10000

\* the rough SOL price of the estimate
SOL_PRICE_USD == 150

\* 1e9 lamports per SOL, in units of 10^6 lamports
UNITS_PER_SOL == 1000

\* how many signatures of a fetch are retained
RETAINED == 5

\* number of detect_large_swaps calls followed
MaxWhaleCalls == 3

\* longest fetched transaction list followed (the code asks for up to 20)
MaxFetchLen == 6

\* newest signature of a wallet's transaction stream
MaxSig == 7

\* longest list of freely chosen transactions
MaxRichLen == 2

\* a transaction: its signature, whether events.swap is a non-empty dict,
\* and the nativeInput / nativeOutput amounts of the swap (Absent: no such key)
Tx(sig, swap, nin, nout) ==
    [signature |-> sig, swap |-> swap, native_in |-> nin, native_out |-> nout]

RichTxs ==
    {Tx(sig, FALSE, Absent, Absent) : sig \in {1, 2}}
    \cup {Tx(sig, TRUE, nin, nout) :
            sig \in {1, 2}, nin \in {Absent, Num(1000), Num(66666)},
            nout \in {Absent, Num(1)}}

RichFetches == SeqsUpTo(RichTxs, MaxRichLen)

\* the transaction behind a signature of the stream
StreamTx(sig) ==
    Tx(sig, sig % 2 = 1, Num(66666), IF sig % 3 = 0 THEN Absent ELSE Num(sig))

\* the newest len transactions of a stream whose newest signature is top
Window(top, len) == [i \in 1..len |-> StreamTx(top + 1 - i)]

WindowFetches ==
    {Window(p[1], p[2]) :
        p \in {q \in (1..MaxSig) \X (0..MaxFetchLen) : q[2] <= q[1]}}

\* get_wallet_transactions: the list, or [] when the request fails
WalletResponses(fetches) ==
    [ok : {TRUE}, items : fetches] \cup [ok : {FALSE}, items : {<<>>}]

get_wallet_transactions(resp) == IF resp.ok THEN resp.items ELSE <<>>

\* native_input.get("amount", 0) + native_output.get("amount", 0)
NativeAmount(tx) == Get(tx.native_in, 0).v + Get(tx.native_out, 0).v

\* a variant that forgets the nativeOutput leg
IsLargeSwap_InputOnly(tx) ==
    /\ tx.swap
    /\ Get(tx.native_in, 0).v * SOL_PRICE_USD >= WHALE_MIN_USD * UNITS_PER_SOL

\* "if swap: ... if amount_sol * 150 >= Config.WHALE_MIN_USD"
IsLargeSwap(tx) ==
    /\ tx.swap
    /\ NativeAmount(tx) * SOL_PRICE_USD >= WHALE_MIN_USD * UNITS_PER_SOL

SwapEntry(tx, wallet) ==
    [signature |-> tx.signature, wallet |-> wallet, amount |-> NativeAmount(tx)]

\* the for loop over txns
SwapsLoop(txns, wallet, retained) ==
    LET F[i \in 0..Len(txns)] ==
            IF i = 0 THEN <<>>
            ELSE IF txns[i].signature \in retained THEN F[i - 1]
            ELSE IF IsLargeSwap(txns[i])
            THEN Append(F[i - 1], SwapEntry(txns[i], wallet))
            ELSE F[i - 1]
    IN  F[Len(txns)]

\* a variant that adds the new signatures to the retained ones
RetainedAfter_Merged(txns, retained) ==
    IF txns # <<>>
    THEN retained \cup {FirstN(txns, RETAINED)[i].signature : i \in 1..Min(Len(txns), RETAINED)}
    ELSE retained

\* "if txns: self.last_signatures[wallet] = {signatures of txns[:5]}"
RetainedAfter(txns, retained) ==
    IF txns # <<>>
    THEN {FirstN(txns, RETAINED)[i].signature : i \in 1..Min(Len(txns), RETAINED)}
    ELSE retained

\* one call of detect_large_swaps(wallet) that gets resp from the indexer
DetectLargeSwaps(wallet, resp) ==
    LET txns == get_wallet_transactions(resp)
    IN  /\ whale_wallet' = wallet
        /\ wallet_txns' = txns
        /\ large_swaps' = SwapsLoop(txns, wallet, last_signatures[wallet])
        /\ last_signatures' =
              [last_signatures EXCEPT ![wallet] = RetainedAfter(txns, @)]
        /\ whale_calls' = whale_calls + 1
        /\ UNCHANGED <<scoreVars, dexVars, brainVars, pumpVars, loopVars, restVars>>

\* the swap filter: one call on freely chosen transactions, from any retained set
DetectOnRichFetch ==
    /\ whale_calls = 0
    /\ \E wallet \in Wallets, resp \in WalletResponses(RichFetches) :
          DetectLargeSwaps(wallet, resp)
    /\ UNCHANGED alertVars

InitWhaleFilter ==
    /\ RestIdle
    /\ ScoreIdle
    /\ DexIdle
    /\ BrainIdle
    /\ PumpIdle
    /\ last_signatures \in [Wallets -> SUBSET {1, 2}]
    /\ whale_wallet = "W1"
    /\ wallet_txns = <<>>
    /\ large_swaps = <<>>
    /\ whale_calls = 0
    /\ whale_alerted = {}
    /\ whale_caller = "scan_whales"
    /\ OrchestratorIdle

NextWhaleFilter == DetectOnRichFetch

SpecWhaleFilter == InitWhaleFilter /\ [][NextWhaleFilter]_vars

\* the retained window: successive calls on windows of the wallets' streams
DetectOnWindow ==
    /\ whale_calls < MaxWhaleCalls
    /\ \E wallet \in Wallets, resp \in WalletResponses(WindowFetches) :
          DetectLargeSwaps(wallet, resp)
    /\ UNCHANGED alertVars

InitWhaleWindow ==
    /\ RestIdle
    /\ ScoreIdle
    /\ DexIdle
    /\ BrainIdle
    /\ PumpIdle
    /\ WhaleIdle
    /\ OrchestratorIdle

NextWhaleWindow == DetectOnWindow

SpecWhaleWindow == InitWhaleWindow /\ [][NextWhaleWindow]_vars

\* the positions of the fetched list that the claim says are reported:
\* signature not retained before the call, a swap event, and
\* (nativeInput + nativeOutput) / 1e9 x 150 >= WHALE_MIN_USD
Reported(txns, retained) ==
    {i \in 1..Len(txns) :
        /\ txns[i].signature \notin retained
        /\ txns[i].swap
        /\ (OrZero(Get(txns[i].native_in, 0)) + OrZero(Get(txns[i].native_out, 0)))
              * 150 >= 10000 * 1000}

\* C7: a call returns, in order, exactly the fetched transactions whose
\* signature was not retained and that carry a swap event worth at least
\* WHALE_MIN_USD at 150 USD per SOL; none without a swap event.
C7_SwapFilter ==
    [][whale_calls' # whale_calls =>
         LET idx == Reported(wallet_txns', last_signatures[whale_wallet'])
         IN  /\ Len(large_swaps') = Cardinality(idx)
             /\ \A i \in idx :
                    LET k == Cardinality({j \in idx : j <= i})
                    IN  /\ large_swaps'[k].signature = wallet_txns'[i].signature
                        /\ large_swaps'[k].wallet = whale_wallet'
    ]_vars

\* a swap of 1e9 lamports is left out, one of 66.667 SOL (10,000.05 USD,
\* reached only with its nativeOutput leg) is reported
C7_Witness ==
    /\ whale_calls = 1
    /\ wallet_txns = <<Tx(1, TRUE, Num(1000), Absent), Tx(2, TRUE, Num(66666), Num(1))>>
    /\ Len(large_swaps) = 1
    /\ large_swaps[1].signature = 2

SigsOf(txns) == {txns[i].signature : i \in 1..Len(txns)}

\* C8: every retained set has at most 5 signatures; a call with a non-empty
\* fetch replaces its wallet's set by the signatures of the first 5 fetched
\* transactions, a call with an empty or failed fetch leaves it as it was,
\* and no call changes another wallet's set.
C8_RetainedWindow ==
    /\ [](\A w \in Wallets : Cardinality(last_signatures[w]) <= 5)
    /\ [][whale_calls' # whale_calls =>
            /\ wallet_txns' # <<>> =>
                  last_signatures'[whale_wallet'] =
                      SigsOf(SubSeq(wallet_txns', 1, Min(5, Len(wallet_txns'))))
            /\ wallet_txns' = <<>> =>
                  last_signatures'[whale_wallet'] = last_signatures[whale_wallet']
            /\ \A w \in Wallets \ {whale_wallet'} :
                  last_signatures'[w] = last_signatures[w]
       ]_vars

\* W1 fetched six transactions after W2 had fetched: W1 retains the newest
\* five, not the sixth, and W2 keeps what it had
C8_Witness ==
    /\ whale_calls >= 2
    /\ whale_wallet = "W1"
    /\ Len(wallet_txns) = 6
    /\ last_signatures["W1"] = {3, 4, 5, 6, 7}
    /\ last_signatures["W2"] = {1}

\* C13: a swap signature that a call returned for a wallet is returned again
\* by the next call for that wallet only if that call observed at least 5
\* transactions newer than the swap that the earlier call had not fetched;
\* in particular a second poll fetching the same list returns no swap that
\* the first poll returned.
C13_NoRepeatWithinWindow ==
    [][(whale_calls' # whale_calls /\ whale_calls > 0 /\ whale_wallet' = whale_wallet) =>
          \A s \in SigsOf(large_swaps) \cap SigsOf(large_swaps') :
              Cardinality({t \in SigsOf(wallet_txns') \ SigsOf(wallet_txns) : t > s}) >= 5
    ]_vars

----------------------------------------------------------------------------
(* scan_whales and generate_hourly_brief on the one WhaleScanner: both call *)
(* scan_all_whales, whose detect_large_swaps calls read and replace         *)
(* last_signatures.                                                         *)

\* scan_whales: a detect_large_swaps call of its scan_all_whales, whose
\* swaps the loop passes to alert_whale_move
ScanWhalesPoll ==
    /\ whale_calls < MaxWhaleCalls
    /\ \E wallet \in Wallets, resp \in WalletResponses(WindowFetches) :
          /\ DetectLargeSwaps(wallet, resp)
          /\ whale_alerted' =
                whale_alerted \cup {<<wallet, sig>> : sig \in SigsOf(large_swaps')}
    /\ whale_caller' = "scan_whales"

\* generate_hourly_brief: a detect_large_swaps call of its scan_all_whales,
\* whose swaps go into the brief's whale_activity only
BriefWhalesPoll ==
    /\ whale_calls < MaxWhaleCalls
    /\ \E wallet \in Wallets, resp \in WalletResponses(WindowFetches) :
          DetectLargeSwaps(wallet, resp)
    /\ whale_caller' = "generate_hourly_brief"
    /\ UNCHANGED whale_alerted

InitWhaleShared ==
    /\ RestIdle
    /\ ScoreIdle
    /\ DexIdle
    /\ BrainIdle
    /\ PumpIdle
    /\ WhaleIdle
    /\ OrchestratorIdle

NextWhaleShared ==
    \/ ScanWhalesPoll
    \/ BriefWhalesPoll

SpecWhaleShared == InitWhaleShared /\ [][NextWhaleShared]_vars

\* C20: whatever the hourly brief does in between, once scan_whales has
\* polled a wallet every large swap among the transactions it fetched has
\* been passed to alert_whale_move for that wallet.
C20_EverySwapAlerted ==
    (whale_calls > 0 /\ whale_caller = "scan_whales") =>
        \A i \in 1..Len(wallet_txns) :
            IsLargeSwap(wallet_txns[i]) =>
                <<whale_wallet, wallet_txns[i].signature>> \in whale_alerted

----------------------------------------------------------------------------
(* SentimentScanner.scan_reddit under scan_all's gather, next to            *)
(* get_new_pairs: the coroutines that share seen_posts and SEEN_PAIRS.      *)
(* A coroutine is suspended only at its awaited GET; the loop over the      *)
(* listing that follows runs without an await, as one step.                 *)

\* longest listing a subreddit returns
MaxChildren == 2

\* scan_all calls followed
MaxScanAll == 2

\* a child of the listing: its id and whether its title holds a keyword
RedditPosts == [id : PostIds, keyword : BOOLEAN]

\* the GET of one scan_reddit call: a listing, or a failure
RedditResponses ==
    [ok : {TRUE}, children : SeqsUpTo(RedditPosts, MaxChildren)]
    \cup [ok : {FALSE}, children : {<<>>}]

\* a variant of the loop that forgets the membership test
RedditLoop_NoSeenCheck(children, seen, emits) ==
    LET F[i \in 0..Len(children)] ==
            IF i = 0 THEN [seen |-> seen, emits |-> emits]
            ELSE LET acc == F[i - 1]
                     post_id == children[i].id
                 IN  [seen |-> acc.seen \cup {post_id},
                      emits |-> IF children[i].keyword
                                THEN [acc.emits EXCEPT ![post_id] = @ + 1]
                                ELSE acc.emits]
    IN  F[Len(children)]

\* the for loop over the children: a seen id is skipped, an unseen one is
\* marked and, when its title holds a keyword, appended to posts
RedditLoop(children, seen, emits) ==
    LET F[i \in 0..Len(children)] ==
            IF i = 0 THEN [seen |-> seen, emits |-> emits]
            ELSE LET acc == F[i - 1]
                     post_id == children[i].id
                 IN  IF post_id \in acc.seen THEN acc
                     ELSE [seen |-> acc.seen \cup {post_id},
                           emits |-> IF children[i].keyword
                                     THEN [acc.emits EXCEPT ![post_id] = @ + 1]
                                     ELSE acc.emits]
    IN  F[Len(children)]

\* scan_all: gather starts the caller's three scan_reddit coroutines, each
\* runs up to its awaited GET
ScanAllStart(caller) ==
    /\ scan_all_calls < MaxScanAll
    /\ \A c \in Coroutines : c[1] = caller => reddit_pc[c] = "idle"
    /\ reddit_pc' = [c \in Coroutines |->
                        IF c[1] = caller THEN "awaiting" ELSE reddit_pc[c]]
    /\ scan_all_calls' = scan_all_calls + 1
    /\ UNCHANGED <<seen_posts, post_emits>>
    /\ UNCHANGED <<scoreVars, dexVars, brainVars, pumpVars, whaleVars, loopVars,
                   alertVars, briefVars, scanVars>>

\* the GET of coroutine c completes and the rest of scan_reddit runs
RedditResponse(c) ==
    /\ reddit_pc[c] = "awaiting"
    /\ \E resp \in RedditResponses :
          LET out == RedditLoop(resp.children, seen_posts, post_emits)
          IN  /\ seen_posts' = out.seen
              /\ post_emits' = out.emits
    /\ reddit_pc' = [reddit_pc EXCEPT ![c] = "idle"]
    /\ UNCHANGED scan_all_calls
    /\ UNCHANGED <<scoreVars, dexVars, brainVars, pumpVars, whaleVars, loopVars,
                   alertVars, briefVars, scanVars>>

\* the answers get_new_pairs gets next to the sentiment scans: at most one
\* token profile
GateResponses == {r \in ProfileResponses : Len(r.data.items) <= 1}

\* get_new_pairs, called by scan_new_tokens; what it returns is counted
GetNewPairsNextToScans ==
    /\ dex_calls < MaxDexCalls
    /\ \E resp \in GateResponses : get_new_pairs(resp)
    /\ pair_emits' =
          [a \in Addresses |->
              pair_emits[a] + Cardinality({i \in 1..Len(new_pairs') :
                                              new_pairs'[i].tokenAddress = a})]
    /\ UNCHANGED <<scoreVars, brainVars, pumpVars, whaleVars, loopVars, alertVars,
                   restVars>>

InitGates ==
    /\ RestIdle
    /\ ScoreIdle
    /\ DexIdle
    /\ BrainIdle
    /\ PumpIdle
    /\ WhaleIdle
    /\ OrchestratorIdle

NextGates ==
    \/ \E caller \in ScanAllCallers : ScanAllStart(caller)
    \/ \E c \in Coroutines : RedditResponse(c)
    \/ GetNewPairsNextToScans

SpecGates == InitGates /\ [][NextGates]_vars

\* C19: whatever the order in which the coroutines are resumed, no post id
\* is appended to a posts list more than once and no token address is
\* returned by get_new_pairs more than once.
C19_EmittedAtMostOnce ==
    /\ \A i \in PostIds : post_emits[i] <= 1
    /\ \A a \in Addresses : pair_emits[a] <= 1

\* the scans of both callers are in flight, a coroutine of each has run its
\* loop, both ids are marked, p1 was emitted once, and A was returned once
\* in two get_new_pairs calls
C19_Witness ==
    /\ scan_all_calls = 2
    /\ reddit_pc[<<"scan_sentiment", "solana">>] = "idle"
    /\ reddit_pc[<<"generate_hourly_brief", "solana">>] = "idle"
    /\ reddit_pc[<<"scan_sentiment", "defi">>] = "awaiting"
    /\ reddit_pc[<<"generate_hourly_brief", "defi">>] = "awaiting"
    /\ seen_posts = PostIds
    /\ post_emits["p1"] = 1
    /\ post_emits["p2"] = 0
    /\ dex_calls = 2
    /\ pair_emits["A"] = 1

----------------------------------------------------------------------------
(* TrustClaw.run, the five polling loops and shutdown *)
(* A loop stands at "top" (the while test), in "fetch" (the awaited        *)
(* scanner calls that open the try block), in "process" (the rest of the   *)
(* try block), in "except" (the handler), in "sleep" or is "done".         *)

\* alert calls are counted up to this number
MaxAlertCount == 1

Configs == [groq : BOOLEAN, telegram : BOOLEAN, helius : BOOLEAN]

Brief == "generate_hourly_brief"

\* the loops whose awaited scanner calls are not wrapped in a try of their
\* own: scan_all_whales, scan_all, and generate_hourly_brief which calls both
FetchMayRaise == {"scan_whales", "scan_sentiment", Brief}

\* the loops whose try block calls alerts.*
MayAlert == Loops \ {"scan_sentiment"}

Bump(n) == Min(n + 1, MaxAlertCount)

\* a variant that logs the missing key and carries on
RunValidate_NoReturn ==
    /\ run_pc = "start"
    /\ run_pc' = "startup"
    /\ alert_calls' = Bump(alert_calls)
    /\ UNCHANGED <<config, running, pc, unslept, any_fetch, partVars>>

\* run() up to the config validation: without GROQ_API_KEY it returns, else
\* it goes on to await send_startup_message()
RunValidate ==
    /\ run_pc = "start"
    /\ IF ~config.groq
       THEN /\ run_pc' = "returned_early"
            /\ UNCHANGED alert_calls
       ELSE /\ run_pc' = "startup"
            /\ alert_calls' = Bump(alert_calls)
    /\ UNCHANGED <<config, running, pc, unslept, any_fetch, partVars>>

\* the five create_task calls and the gather
RunCreateTasks ==
    /\ run_pc = "startup"
    /\ run_pc' = "gathering"
    /\ pc' = [l \in Loops |-> "top"]
    /\ UNCHANGED <<config, running, unslept, any_fetch, alert_calls, partVars>>

\* gather returns once every task has returned
RunReturn ==
    /\ run_pc = "gathering"
    /\ \A l \in Loops : pc[l] = "done"
    /\ run_pc' = "returned"
    /\ UNCHANGED <<config, running, pc, unslept, any_fetch, alert_calls, partVars>>

\* a variant whose while test ignores the flag
LoopTop_IgnoresFlag(l) ==
    /\ pc[l] = "top"
    /\ IF l = Brief
       THEN /\ pc' = [pc EXCEPT ![l] = "sleep"]
            /\ UNCHANGED <<unslept, any_fetch>>
       ELSE /\ pc' = [pc EXCEPT ![l] = "fetch"]
            /\ unslept' = [unslept EXCEPT ![l] = TRUE]
            /\ any_fetch' = TRUE
    /\ UNCHANGED <<config, run_pc, running, alert_calls, partVars>>

\* "while self.running": the hourly brief sleeps first, inside its try block,
\* the other loops start their fetch
LoopTop(l) ==
    /\ pc[l] = "top"
    /\ IF ~running
       THEN /\ pc' = [pc EXCEPT ![l] = "done"]
            /\ UNCHANGED <<unslept, any_fetch>>
       ELSE IF l = Brief
       THEN /\ pc' = [pc EXCEPT ![l] = "sleep"]
            /\ UNCHANGED <<unslept, any_fetch>>
       ELSE /\ pc' = [pc EXCEPT ![l] = "fetch"]
            /\ unslept' = [unslept EXCEPT ![l] = TRUE]
            /\ any_fetch' = TRUE
    /\ UNCHANGED <<config, run_pc, running, alert_calls, partVars>>

\* a variant handler that gives up the loop
ExceptTarget_GiveUp(l) == "done"

\* where the except clause leaves the loop: at the sleep after the try
\* block, or, for the hourly brief that has none, back at the while test
ExceptTarget(l) == IF l = Brief THEN "top" ELSE "sleep"

\* the awaited scanner calls complete, or raise
LoopFetch(l) ==
    /\ pc[l] = "fetch"
    /\ \E raised \in BOOLEAN :
          /\ raised => l \in FetchMayRaise
          /\ pc' = [pc EXCEPT ![l] = IF raised THEN "except" ELSE "process"]
    /\ UNCHANGED <<config, run_pc, running, unslept, any_fetch, alert_calls, partVars>>

\* the rest of the try block: it may alert, and it completes or raises
LoopProcess(l) ==
    /\ pc[l] = "process"
    /\ \E raised \in BOOLEAN, alerted \in BOOLEAN :
          /\ alerted => l \in MayAlert
          /\ alert_calls' = IF alerted THEN Bump(alert_calls) ELSE alert_calls
          /\ pc' = [pc EXCEPT ![l] = IF raised THEN "except"
                                     ELSE IF l = Brief THEN "top" ELSE "sleep"]
    /\ UNCHANGED <<config, run_pc, running, unslept, any_fetch, partVars>>

\* "except Exception as e: logger.error(...)"
LoopExcept(l) ==
    /\ pc[l] = "except"
    /\ pc' = [pc EXCEPT ![l] = ExceptTarget(l)]
    /\ UNCHANGED <<config, run_pc, running, unslept, any_fetch, alert_calls, partVars>>

\* asyncio.sleep(interval) completes: the hourly brief goes on to its fetch,
\* the other loops go back to the while test
LoopSleep(l) ==
    /\ pc[l] = "sleep"
    /\ IF l = Brief
       THEN /\ pc' = [pc EXCEPT ![l] = "fetch"]
            /\ unslept' = [unslept EXCEPT ![l] = TRUE]
            /\ any_fetch' = TRUE
       ELSE /\ pc' = [pc EXCEPT ![l] = "top"]
            /\ unslept' = [unslept EXCEPT ![l] = FALSE]
            /\ UNCHANGED any_fetch
    /\ UNCHANGED <<config, run_pc, running, alert_calls, partVars>>

LoopStep(l) ==
    \/ LoopTop(l)
    \/ LoopFetch(l)
    \/ LoopProcess(l)
    \/ LoopExcept(l)
    \/ LoopSleep(l)

\* shutdown(), started by SIGINT / SIGTERM: the flag is cleared
Shutdown ==
    /\ running
    /\ running' = FALSE
    /\ UNCHANGED <<config, run_pc, pc, unslept, any_fetch, alert_calls, partVars>>

InitLoops ==
    /\ RestIdle
    /\ ScoreIdle
    /\ DexIdle
    /\ BrainIdle
    /\ PumpIdle
    /\ WhaleIdle
    /\ config \in Configs
    /\ LoopsIdle

NextLoops ==
    \/ RunValidate
    \/ RunCreateTasks
    \/ RunReturn
    \/ \E l \in Loops : LoopStep(l)
    \/ Shutdown

SpecLoops == InitLoops /\ [][NextLoops]_vars

\* the loops under a complete configuration
InitFairLoops ==
    /\ InitLoops
    /\ config = AllKeys

\* the event loop runs every ready task, and every HTTP call (30 s timeout)
\* and sleep ends; a signal may never come
FairLoops ==
    /\ InitFairLoops
    /\ [][NextLoops]_vars
    /\ WF_vars(RunValidate)
    /\ WF_vars(RunCreateTasks)
    /\ WF_vars(RunReturn)
    /\ \A l \in Loops : WF_vars(LoopStep(l))

Working(l) == pc[l] \in {"fetch", "process"}

\* C9: (a) a loop ends only at its while test with the running flag cleared,
\* so no exception ends the failing loop or another one; (b) the step that
\* starts a fetch ends a sleep or finds the loop slept since its last
\* iteration, so a failed iteration is followed by the interval before the
\* next one; (c) after an exception in any loop, every loop works on an
\* iteration again, unless the running flag is cleared.
C9_LoopsSurviveExceptions ==
    /\ [][\A l \in Loops :
            (pc[l] # "done" /\ pc'[l] = "done") => (pc[l] = "top" /\ ~running)]_vars
    /\ [][\A l \in Loops :
            (pc[l] # "fetch" /\ pc'[l] = "fetch") => (pc[l] = "sleep" \/ ~unslept[l])]_vars
    /\ \A l \in Loops :
          (\E k \in Loops : pc[k] = "except") ~> (Working(l) \/ ~running)

\* two loops are in their except handlers while the flag is still set
C9_Witness ==
    /\ running
    /\ pc["scan_whales"] = "except"
    /\ pc[Brief] = "except"
    /\ pc["scan_new_tokens"] = "sleep"

\* C10: without GROQ_API_KEY no task is ever created, nothing is fetched and
\* no alert call, the startup message included, is made; with it, once run()
\* is past the startup message the five tasks exist, whatever the
\* notification and indexer credentials.
C10_NoLoopsWithoutKey ==
    /\ ~config.groq =>
          /\ \A l \in Loops : pc[l] = "not_created"
          /\ ~any_fetch
          /\ alert_calls = 0
          /\ run_pc \in {"start", "returned_early"}
    /\ (config.groq /\ run_pc \in {"gathering", "returned"}) =>
          \A l \in Loops : pc[l] # "not_created"

C10_Witness ==
    /\ ~config.groq /\ config.telegram /\ config.helius
    /\ run_pc = "returned_early"
    /\ \A l \in Loops : pc[l] = "not_created"

\* C17: a loop starts a fetch only from its while test, with the running
\* flag set: once shutdown() has cleared the flag no loop begins a fetch.
C17_NoFetchAfterShutdown ==
    [][\A l \in Loops :
          (pc[l] # "fetch" /\ pc'[l] = "fetch") => (pc[l] = "top" /\ running)]_vars

\* C18: once the running flag is cleared, every loop exits and run() returns.
C18_ShutdownTerminates ==
    (~running) ~> (run_pc = "returned" /\ \A l \in Loops : pc[l] = "done")

\* the loops had worked and alerted, the flag is cleared, all are done
C18_Witness ==
    /\ ~running
    /\ any_fetch
    /\ alert_calls >= 1
    /\ run_pc = "returned"
    /\ \A l \in Loops : pc[l] = "done"

====
